---- MODULE Spec2Model ----
(***************************************************************************)
(* Model of the ThreadPool class of clear.js (lines 198-254): a bounded-   *)
(* concurrency runner of promise-returning jobs.                           *)
(*                                                                         *)
(* JavaScript runs every synchronous block to completion, so one action    *)
(* is one synchronous block: the executor of runAll, the settlement of a   *)
(* job's promise, and each of the three reactions (then / catch / finally) *)
(* chained on it, which run as separate microtasks.                        *)
(***************************************************************************)
EXTENDS Integers, Sequences, FiniteSets, TLC

\* Largest number of jobs handed to runAll, and largest maxThreads tried.
MaxJobs == 3
MaxThreads == 3

Jobs == 1..MaxJobs

VARIABLES
    maxThreads,   \* this.maxThreads
    running,      \* this.running
    queue,        \* this.queue : sequence of job ids, head first
    results,      \* this.results : sequence of result values (the job id)
    onComplete,   \* this._onComplete : "undefined", "resolve1" or "resolve2"
    numTasks,     \* tasks.length of the runAll call
    promise,      \* promise returned by runAll: "none","pending","resolved","rejected"
    resolvedWith, \* value the promise was resolved with
    pc,           \* per job: "none","queued","pending","settled","thenDone","catchDone","done"
    outcome,      \* per job: state of the promise task() returned
    chain,        \* per job: state of the promise at the current link of the chain
    invoked,      \* per job: number of times task() was called
    startOrder,   \* job ids in the order task() was called
    signalled,    \* number of calls of this._onComplete
    unhandled,    \* jobs whose chain ended in a rejected promise nobody handles
    \* a second runAll call on the same pool
    numTasks2,    \* tasks.length of the second call
    promise2,     \* promise returned by the second call
    resolvedWith2,\* value the second promise was resolved with
    overlap,      \* TRUE iff jobs were in flight when the second call was made
    \* the script around the pool (main, lines 62-195)
    spc,          \* position of the script
    allTags,      \* allTags : sequence of tags, a tag is a sequence of characters
    tagsToKeep,
    tagsToDelete,
    answer,       \* the line typed at the confirmation prompt
    deleteTasks,  \* deleteTasks.length
    successTags,
    failedTags,   \* the tag field of the entries of failedTags
    deletedLocalTags,
    stage,        \* per deletion job: "none","remote","local","end"
    remoteErr,    \* per deletion job: "none","ok", or the stderr of the failed push
    localRes      \* per deletion job: "none","ok","failed"

poolVars == <<maxThreads, running, queue, results, onComplete, numTasks, promise,
              resolvedWith, pc, outcome, chain, invoked, startOrder, signalled,
              unhandled>>
overlapVars == <<numTasks2, promise2, resolvedWith2, overlap>>
scriptVars == <<spc, allTags, tagsToKeep, tagsToDelete, answer, deleteTasks,
                successTags, failedTags, deletedLocalTags, stage, remoteErr, localRes>>

vars == <<poolVars, overlapVars, scriptVars>>

Min(a, b) == IF a < b THEN a ELSE b

\* The script has not run: the pool is used on its own.
ScriptIdle ==
    /\ allTags = <<>>
    /\ tagsToKeep = <<>>
    /\ tagsToDelete = <<>>
    /\ answer = <<>>
    /\ deleteTasks = 0
    /\ successTags = <<>>
    /\ failedTags = <<>>
    /\ deletedLocalTags = <<>>
    /\ stage = [j \in Jobs |-> "none"]
    /\ remoteErr = [j \in Jobs |-> "none"]
    /\ localRes = [j \in Jobs |-> "none"]

\* constructor(maxThreads); no runAll call made yet.
Constructed ==
    /\ running = 0
    /\ queue = <<>>
    /\ results = <<>>
    /\ onComplete = "undefined"
    /\ numTasks = 0
    /\ promise = "none"
    /\ resolvedWith = <<>>
    /\ pc = [j \in Jobs |-> "none"]
    /\ outcome = [j \in Jobs |-> "none"]
    /\ chain = [j \in Jobs |-> "none"]
    /\ invoked = [j \in Jobs |-> 0]
    /\ startOrder = <<>>
    /\ signalled = 0
    /\ unhandled = {}
    /\ numTasks2 = 0
    /\ promise2 = "none"
    /\ resolvedWith2 = <<>>
    /\ overlap = FALSE

Init ==
    /\ maxThreads \in 1..MaxThreads
    /\ Constructed
    /\ spc = "none"
    /\ ScriptIdle

\* The part of the state _startThread touches.
Cur == [running |-> running, queue |-> queue, pc |-> pc, outcome |-> outcome,
        chain |-> chain, invoked |-> invoked, startOrder |-> startOrder]

\* tasks.forEach(task => this.queue.push(task))
Enqueue(q, n) == q \o [i \in 1..n |-> i]

CanStartOffByOne(r, k, q) == r <= k /\ Len(q) > 0
CanStartOneShort(r, k, q) == r + 1 < k /\ Len(q) > 0
\* while (this.running < this.maxThreads && this.queue.length > 0)
CanStart(r, k, q) == r < k /\ Len(q) > 0

ShiftSkip(q) == [task |-> Head(q), rest |-> IF Len(q) > 1 THEN Tail(Tail(q)) ELSE <<>>]
ShiftLast(q) == [task |-> q[Len(q)], rest |-> SubSeq(q, 1, Len(q) - 1)]
\* const task = this.queue.shift()
Shift(q) == [task |-> Head(q), rest |-> Tail(q)]

StartThreadUncounted(st) ==
    LET s == Shift(st.queue) IN
    [st EXCEPT !.queue = s.rest,
               !.pc[s.task] = "pending",
               !.outcome[s.task] = "pending",
               !.chain[s.task] = "pending",
               !.invoked[s.task] = @ + 1,
               !.startOrder = Append(@, s.task)]

\* _startThread() up to and including the call task(): the job's promise is
\* pending when task() returns.
StartThread(st) ==
    LET s == Shift(st.queue) IN
    [st EXCEPT !.queue = s.rest,
               !.running = @ + 1,
               !.pc[s.task] = "pending",
               !.outcome[s.task] = "pending",
               !.chain[s.task] = "pending",
               !.invoked[s.task] = @ + 1,
               !.startOrder = Append(@, s.task)]

StartThreadsOnce(st, k) ==
    IF CanStart(st.running, k, st.queue) THEN StartThread(st) ELSE st

RECURSIVE StartThreads(_, _)
\* _startThreads()
StartThreads(st, k) ==
    IF CanStart(st.running, k, st.queue)
    THEN StartThreads(StartThread(st), k)
    ELSE st

ShouldRestartButLast(q) == Len(q) > 1
\* if (this.queue.length > 0) in the finally handler
ShouldRestart(q) == Len(q) > 0

IsCompleteQueueOnly(r, q) == Len(q) = 0
\* if (this.running === 0 && this.queue.length === 0)
IsComplete(r, q) == r = 0 /\ Len(q) = 0

CatchRethrow(c) == c
\* .catch(error => { console.error(...) }): the handler returns normally,
\* so the promise it yields is fulfilled; a fulfilled input passes through.
CatchHandler(c) == "fulfilled"

SetOnCompleteLost(old, resolve) == old
SetOnCompleteKeepFirst(old, resolve) == IF old = "undefined" THEN resolve ELSE old
\* this._onComplete = resolve
SetOnComplete(old, resolve) == resolve

\* The executor of runAll(tasks) up to and including this._startThreads();
\* q is this.queue after the pushes.
Dispatch(q) ==
    LET st == StartThreads([Cur EXCEPT
                  !.queue = q,
                  !.pc = [j \in Jobs |-> IF pc[j] = "none" /\ \E i \in 1..Len(q) : q[i] = j
                                          THEN "queued" ELSE pc[j]]],
                  maxThreads)
    IN /\ running' = st.running
       /\ queue' = st.queue
       /\ pc' = st.pc
       /\ outcome' = st.outcome
       /\ chain' = st.chain
       /\ invoked' = st.invoked
       /\ startOrder' = st.startOrder

\* runAll(tasks): the whole promise executor, first call on the pool.
RunAllBody(n) ==
    /\ promise = "none"
    /\ Dispatch(Enqueue(queue, n))
    /\ numTasks' = n
    /\ onComplete' = SetOnComplete(onComplete, "resolve1")
    /\ promise' = "pending"
    /\ UNCHANGED <<maxThreads, results, resolvedWith, signalled, unhandled>>
    /\ UNCHANGED overlapVars

RunAll(n) == RunAllBody(n) /\ UNCHANGED scriptVars

\* A second runAll(tasks) on the same pool, at any time after the first.
RunAllAgain(n) ==
    /\ promise # "none"
    /\ promise2 = "none"
    /\ numTasks + n <= MaxJobs
    /\ Dispatch(queue \o [i \in 1..n |-> numTasks + i])
    /\ numTasks2' = n
    /\ onComplete' = SetOnComplete(onComplete, "resolve2")
    /\ promise2' = "pending"
    /\ overlap' = (running > 0 \/ Len(queue) > 0)
    /\ UNCHANGED <<maxThreads, results, numTasks, promise, resolvedWith, resolvedWith2,
                   signalled, unhandled>>
    /\ UNCHANGED scriptVars

\* The promise returned by task() settles: the job succeeds or fails.
Settle(j, o) ==
    /\ pc[j] = "pending"
    /\ pc' = [pc EXCEPT ![j] = "settled"]
    /\ outcome' = [outcome EXCEPT ![j] = o]
    /\ chain' = [chain EXCEPT ![j] = o]
    /\ UNCHANGED <<maxThreads, running, queue, results, onComplete, numTasks,
                   promise, resolvedWith, invoked, startOrder, signalled, unhandled>>
    /\ UNCHANGED <<overlapVars, scriptVars>>

\* .then(result => { this.results.push(result) }); a rejection passes through.
ThenStep(j) ==
    /\ pc[j] = "settled"
    /\ pc' = [pc EXCEPT ![j] = "thenDone"]
    /\ results' = IF chain[j] = "fulfilled" THEN Append(results, j) ELSE results
    /\ UNCHANGED <<maxThreads, running, queue, onComplete, numTasks, promise,
                   resolvedWith, outcome, chain, invoked, startOrder, signalled,
                   unhandled>>
    /\ UNCHANGED <<overlapVars, scriptVars>>

\* .catch(error => { console.error(...) })
CatchStep(j) ==
    /\ pc[j] = "thenDone"
    /\ pc' = [pc EXCEPT ![j] = "catchDone"]
    /\ chain' = [chain EXCEPT ![j] = CatchHandler(chain[j])]
    /\ UNCHANGED <<maxThreads, running, queue, results, onComplete, numTasks,
                   promise, resolvedWith, outcome, invoked, startOrder, signalled,
                   unhandled>>
    /\ UNCHANGED <<overlapVars, scriptVars>>

\* .finally(() => { ... }): decrement, restart, completion test.
FinallyStep(j) ==
    /\ pc[j] = "catchDone"
    /\ LET st0 == [Cur EXCEPT !.running = @ - 1]
           st1 == IF ShouldRestart(st0.queue) THEN StartThread(st0) ELSE st0
           complete == IsComplete(st1.running, st1.queue)
           \* this._onComplete(this.results) throws a TypeError when the
           \* field is still undefined
           threw == complete /\ onComplete = "undefined"
           final == IF threw THEN "rejected" ELSE st1.chain[j]
           \* resolve of a promise that is already resolved does nothing
           res1 == complete /\ onComplete = "resolve1" /\ promise = "pending"
           res2 == complete /\ onComplete = "resolve2" /\ promise2 = "pending"
       IN /\ running' = st1.running
          /\ queue' = st1.queue
          /\ outcome' = st1.outcome
          /\ invoked' = st1.invoked
          /\ startOrder' = st1.startOrder
          /\ pc' = [st1.pc EXCEPT ![j] = "done"]
          /\ chain' = [st1.chain EXCEPT ![j] = final]
          /\ signalled' = IF complete /\ ~threw THEN signalled + 1 ELSE signalled
          /\ promise' = IF res1 THEN "resolved" ELSE promise
          /\ resolvedWith' = IF res1 THEN results ELSE resolvedWith
          /\ promise2' = IF res2 THEN "resolved" ELSE promise2
          /\ resolvedWith2' = IF res2 THEN results ELSE resolvedWith2
          /\ unhandled' = IF final = "rejected" THEN unhandled \cup {j} ELSE unhandled
    /\ UNCHANGED <<maxThreads, results, onComplete, numTasks, numTasks2, overlap>>
    /\ UNCHANGED scriptVars

Next ==
    \/ \E n \in 0..MaxJobs : RunAll(n)
    \/ \E j \in Jobs : \E o \in {"fulfilled", "rejected"} : Settle(j, o)
    \/ \E j \in Jobs : ThenStep(j)
    \/ \E j \in Jobs : CatchStep(j)
    \/ \E j \in Jobs : FinallyStep(j)

Spec == Init /\ [][Next]_vars

\* Every started job eventually terminates, and the event loop runs every
\* microtask that is queued.
LiveSpec ==
    /\ Spec
    /\ WF_vars(\E j \in Jobs : \E o \in {"fulfilled", "rejected"} : Settle(j, o))
    /\ WF_vars(\E j \in Jobs : ThenStep(j))
    /\ WF_vars(\E j \in Jobs : CatchStep(j))
    /\ WF_vars(\E j \in Jobs : FinallyStep(j))

\* Two runAll calls on one pool; the second may come at any time after the
\* first. Same scheduling as LiveSpec; the caller need not call twice.
OverlapNext ==
    \/ Next
    \/ \E n \in 0..MaxJobs : RunAllAgain(n)

OverlapSpec ==
    /\ Init /\ [][OverlapNext]_vars
    /\ WF_vars(\E j \in Jobs : \E o \in {"fulfilled", "rejected"} : Settle(j, o))
    /\ WF_vars(\E j \in Jobs : ThenStep(j))
    /\ WF_vars(\E j \in Jobs : CatchStep(j))
    /\ WF_vars(\E j \in Jobs : FinallyStep(j))

TypeOK ==
    /\ maxThreads \in 1..MaxThreads \cup {50}
    /\ running \in 0..MaxJobs
    /\ numTasks \in 0..MaxJobs
    /\ onComplete \in {"undefined", "resolve1", "resolve2"}
    /\ promise \in {"none", "pending", "resolved", "rejected"}
    /\ \A j \in Jobs : pc[j] \in {"none", "queued", "pending", "settled",
                                  "thenDone", "catchDone", "done"}
    /\ \A j \in Jobs : outcome[j] \in {"none", "pending", "fulfilled", "rejected"}

(***************************************************************************)
(* The script around the pool: main (lines 62-195) and the deletion jobs   *)
(* it hands to the pool (lines 146-170). A tag is a sequence of            *)
(* characters; a stderr text is a sequence of words.                       *)
(***************************************************************************)

\* Largest number of tags `git tag` lists.
MaxTags == 2

\* const THREAD_POOL_SIZE = 50
THREAD_POOL_SIZE == 50

\* Tag names the repository may hold: v35.0 v38 v37.2 v36.1b v34.0 v3 rc1 V35
TagNames ==
    { <<"v", "3", "5", ".", "0">>,
      <<"v", "3", "8">>,
      <<"v", "3", "7", ".", "2">>,
      <<"v", "3", "6", ".", "1", "b">>,
      <<"v", "3", "4", ".", "0">>,
      <<"v", "3">>,
      <<"r", "c", "1">>,
      <<"V", "3", "5">> }

\* Outputs of `git tag`: lists of distinct tag names.
TagLists ==
    UNION {{t \in [1..n -> TagNames] : \A i, k \in 1..n : i # k => t[i] # t[k]} :
           n \in 0..MaxTags}

\* Lines the user may type at the prompt: y Y n yes and the empty line.
Answers == { <<"y">>, <<"Y">>, <<"n">>, <<"y", "e", "s">>, <<>> }

\* stderr of a failed `git push origin --delete <tag>`.
Stderrs ==
    { <<"error:", "unable", "to", "delete:", "remote", "ref", "does", "not", "exist">>,
      <<"error:", "remote", "ref", "is", "at", "abc", "but", "expected", "def">>,
      <<"error:", "tag", "does", "not", "exist">>,
      <<"fatal:", "unable", "to", "access", "remote">>,
      <<>> }

\* String.prototype.startsWith
StartsWith(str, prefix) ==
    Len(str) >= Len(prefix) /\ SubSeq(str, 1, Len(prefix)) = prefix

\* String.prototype.substring(k)
Substring(str, k) == SubSeq(str, k + 1, Len(str))

\* String.prototype.includes
Includes(str, part) ==
    \E i \in 0..(Len(str) - Len(part)) : SubSeq(str, i + 1, i + Len(part)) = part

\* String.prototype.toLowerCase, on the letters of Answers
ToLowerCase(str) ==
    [i \in 1..Len(str) |->
        CASE str[i] = "Y" -> "y"
          [] str[i] = "N" -> "n"
          [] str[i] = "V" -> "v"
          [] OTHER -> str[i]]

Digits == {"0", "1", "2", "3", "4", "5", "6", "7", "8", "9"}

HasSuffixDotIsSuffix(rest) == \E i \in 1..Len(rest) : rest[i] \notin Digits
\* /[^0-9.]/.test(rest)
HasSuffix(rest) == \E i \in 1..Len(rest) : rest[i] \notin Digits \cup {"."}

\* tag.startsWith('v35') || ... || tag.startsWith('v38')
VersionPrefix(tag) ==
    \/ StartsWith(tag, <<"v", "3", "5">>)
    \/ StartsWith(tag, <<"v", "3", "6">>)
    \/ StartsWith(tag, <<"v", "3", "7">>)
    \/ StartsWith(tag, <<"v", "3", "8">>)

\* The body of allTags.forEach: TRUE iff the tag goes to tagsToDelete.
ToDelete(tag) ==
    IF VersionPrefix(tag)
    THEN HasSuffix(Substring(tag, 3))
    ELSE StartsWith(tag, <<"v">>)

\* isTagNotFoundError(error), on error.stderr || ''
IsTagNotFoundError(stderr) ==
    \/ Includes(stderr, <<"remote", "ref", "does", "not", "exist">>)
    \/ Includes(stderr, <<"remote", "ref", "is", "at">>)
    \/ Includes(stderr, <<"tag", "does", "not", "exist">>)

ConfirmedUnlessNo(line) == ToLowerCase(line) # <<"n">>
\* answer.toLowerCase() !== 'y' is false
Confirmed(line) == ToLowerCase(line) = <<"y">>

LocalFailureUncaught(ok) == IF ok THEN "fulfilled" ELSE "rejected"
\* try { await git tag -d; ... } catch (localError) { console.log(...) }:
\* the job's promise is fulfilled whether the local delete works or not.
LocalDeleteOutcome(ok) == "fulfilled"

\* new ThreadPool(THREAD_POOL_SIZE) is created in the prompt's callback; its
\* fields have their constructor values from the start here.
ScriptInit ==
    /\ maxThreads = THREAD_POOL_SIZE
    /\ Constructed
    /\ spc = "start"
    /\ ScriptIdle

\* await syncRemoteTags(): on failure process.exit(1).
Sync(ok) ==
    /\ spc = "start"
    /\ spc' = IF ok THEN "synced" ELSE "exited"
    /\ UNCHANGED <<allTags, tagsToKeep, tagsToDelete, answer, deleteTasks, successTags,
                   failedTags, deletedLocalTags, stage, remoteErr, localRes>>
    /\ UNCHANGED <<poolVars, overlapVars>>

\* main from `git tag` to rl.question: list, classify, ask or close.
Main(ok, tags) ==
    /\ spc = "synced"
    /\ IF ~ok
       THEN \* runGitCommand: process.exit(1)
            /\ spc' = "exited"
            /\ UNCHANGED <<allTags, tagsToKeep, tagsToDelete>>
       ELSE /\ allTags' = tags
            /\ IF Len(tags) = 0
               THEN /\ spc' = "closed"
                    /\ UNCHANGED <<tagsToKeep, tagsToDelete>>
               ELSE /\ tagsToDelete' = SelectSeq(tags, ToDelete)
                    /\ tagsToKeep' = SelectSeq(tags, LAMBDA t : ~ToDelete(t))
                    /\ spc' = IF Len(tagsToDelete') = 0 THEN "closed" ELSE "prompt"
    /\ UNCHANGED <<answer, deleteTasks, successTags, failedTags, deletedLocalTags,
                   stage, remoteErr, localRes>>
    /\ UNCHANGED <<poolVars, overlapVars>>

\* The callback of rl.question up to `await threadPool.runAll(deleteTasks)`:
\* job j deletes tagsToDelete[j].
Answer(line) ==
    /\ spc = "prompt"
    /\ answer' = line
    /\ IF ~Confirmed(line)
       THEN /\ spc' = "cancelled"
            /\ UNCHANGED <<deleteTasks, stage, poolVars, overlapVars>>
       ELSE /\ spc' = "deleting"
            /\ deleteTasks' = Len(tagsToDelete)
            /\ stage' = [j \in Jobs |-> IF j <= Len(tagsToDelete) THEN "remote" ELSE "none"]
            /\ RunAllBody(Len(tagsToDelete))
    /\ UNCHANGED <<allTags, tagsToKeep, tagsToDelete, successTags, failedTags,
                   deletedLocalTags, remoteErr, localRes>>

\* The job's promise is settled by the job itself.
JobSettles(j, o) ==
    /\ pc' = [pc EXCEPT ![j] = "settled"]
    /\ outcome' = [outcome EXCEPT ![j] = o]
    /\ chain' = [chain EXCEPT ![j] = o]
    /\ UNCHANGED <<maxThreads, running, queue, results, onComplete, numTasks,
                   promise, resolvedWith, invoked, startOrder, signalled, unhandled>>

\* `git push origin --delete <tag>` of job j ends, with stderr r if it failed.
RemoteDone(j, ok, r) ==
    /\ pc[j] = "pending"
    /\ stage[j] = "remote"
    /\ IF ok
       THEN /\ successTags' = Append(successTags, tagsToDelete[j])
            /\ remoteErr' = [remoteErr EXCEPT ![j] = "ok"]
            /\ stage' = [stage EXCEPT ![j] = "end"]
            /\ JobSettles(j, "fulfilled")
            /\ UNCHANGED failedTags
       ELSE IF IsTagNotFoundError(r)
       THEN \* goes on to `git tag -d <tag>`
            /\ remoteErr' = [remoteErr EXCEPT ![j] = "notFound"]
            /\ stage' = [stage EXCEPT ![j] = "local"]
            /\ UNCHANGED <<successTags, failedTags, poolVars>>
       ELSE /\ failedTags' = Append(failedTags, tagsToDelete[j])
            /\ remoteErr' = [remoteErr EXCEPT ![j] = "other"]
            /\ stage' = [stage EXCEPT ![j] = "end"]
            /\ JobSettles(j, "fulfilled")
            /\ UNCHANGED successTags
    /\ UNCHANGED <<spc, allTags, tagsToKeep, tagsToDelete, answer, deleteTasks,
                   deletedLocalTags, localRes>>
    /\ UNCHANGED overlapVars

\* `git tag -d <tag>` of job j ends.
LocalDone(j, ok) ==
    /\ pc[j] = "pending"
    /\ stage[j] = "local"
    /\ deletedLocalTags' = IF ok THEN Append(deletedLocalTags, tagsToDelete[j])
                           ELSE deletedLocalTags
    /\ localRes' = [localRes EXCEPT ![j] = IF ok THEN "ok" ELSE "failed"]
    /\ stage' = [stage EXCEPT ![j] = "end"]
    /\ JobSettles(j, LocalDeleteOutcome(ok))
    /\ UNCHANGED <<spc, allTags, tagsToKeep, tagsToDelete, answer, deleteTasks,
                   successTags, failedTags, remoteErr>>
    /\ UNCHANGED overlapVars

\* After `await threadPool.runAll(deleteTasks)`: print the report, rl.close().
Report ==
    /\ spc = "deleting"
    /\ promise = "resolved"
    /\ spc' = "reported"
    /\ UNCHANGED <<allTags, tagsToKeep, tagsToDelete, answer, deleteTasks, successTags,
                   failedTags, deletedLocalTags, stage, remoteErr, localRes>>
    /\ UNCHANGED <<poolVars, overlapVars>>

ScriptNext ==
    \/ \E ok \in BOOLEAN : Sync(ok)
    \/ spc = "synced" /\ \E ok \in BOOLEAN : \E tags \in TagLists : Main(ok, tags)
    \/ \E line \in Answers : Answer(line)
    \/ \E j \in Jobs : \E ok \in BOOLEAN : \E r \in Stderrs : RemoteDone(j, ok, r)
    \/ \E j \in Jobs : \E ok \in BOOLEAN : LocalDone(j, ok)
    \/ \E j \in Jobs : ThenStep(j)
    \/ \E j \in Jobs : CatchStep(j)
    \/ \E j \in Jobs : FinallyStep(j)
    \/ Report

ScriptSpec == ScriptInit /\ [][ScriptNext]_vars

(***************************************************************************)
(* Properties of a single runAll call.                                     *)
(***************************************************************************)

Submitted == 1..numTasks
Called == promise # "none"

\* Jobs whose task() has been called and whose finally handler has not run.
Active == {j \in Jobs : pc[j] \in {"pending", "settled", "thenDone", "catchDone"}}
\* Jobs whose own promise is still pending.
Executing == {j \in Jobs : pc[j] = "pending"}
Failed == {j \in Jobs : outcome[j] = "rejected"}
Succeeded == {j \in Jobs : outcome[j] = "fulfilled"}

\* C1: in every reachable state the number of jobs started and not yet
\* terminated (whether termination is the settling of the job's promise or
\* the run of its finally handler) is at most min(K, N), and so is the
\* counter this.running.
C1_BoundedConcurrency ==
    /\ Cardinality(Active) <= Min(maxThreads, numTasks)
    /\ Cardinality(Executing) <= Min(maxThreads, numTasks)
    /\ running >= 0
    /\ running <= Min(maxThreads, numTasks)

C1_Witness ==
    /\ numTasks > maxThreads
    /\ Cardinality(Active) = maxThreads
    /\ maxThreads >= 2
    /\ \E j \in Failed \cup Succeeded : pc[j] = "done"
    /\ \E j \in Failed : j \in Active

\* C2: no job is ever invoked twice, and once completion has been signalled
\* every submitted job has been invoked exactly once.
C2_ExactlyOnce ==
    /\ \A j \in Jobs : invoked[j] <= 1
    /\ signalled > 0 => \A j \in Submitted : invoked[j] = 1

C2_Witness ==
    /\ signalled > 0
    /\ numTasks > maxThreads
    /\ Failed # {}
    /\ Succeeded # {}
    /\ \A j \in Submitted : invoked[j] = 1

\* C3 (as claimed): the collection runAll completes with has exactly N
\* entries, one per submitted job, failed jobs included.
C3_AllOutcomesRecorded ==
    promise = "resolved" => Len(resolvedWith) = numTasks

\* C4: every call of the completion callback happens in a step that ends
\* with the queue empty, the running counter at 0 and every submitted job
\* past its finally handler.
C4_CompletionOnlyWhenIdle ==
    [][signalled' # signalled =>
          /\ queue' = <<>>
          /\ running' = 0
          /\ \A j \in 1..numTasks' : pc'[j] = "done"]_vars

C4_Witness ==
    /\ signalled = 1
    /\ promise = "resolved"
    /\ numTasks > maxThreads
    /\ queue = <<>>
    /\ running = 0

\* C5: under the scheduling of LiveSpec (every started job settles, every
\* queued microtask runs), a call with N >= 1 jobs eventually signals
\* completion and every queued job is eventually started, whichever jobs
\* fail.
C5_Progress ==
    /\ (Called /\ numTasks >= 1) ~> (signalled >= 1 /\ promise = "resolved")
    /\ \A j \in Jobs : (pc[j] = "queued") ~> (invoked[j] >= 1)

C5_Witness ==
    /\ promise = "resolved"
    /\ numTasks > maxThreads
    /\ \A j \in Submitted : outcome[j] = "rejected"

\* C6 (as claimed): a call with an empty job list completes at once with an
\* empty result collection.
C6_EmptyCompletes ==
    (Called /\ numTasks = 0) => (promise = "resolved" /\ resolvedWith = <<>>)

\* C7: the promise returned by runAll is never rejected, no job failure
\* leaves the handler chain as an unhandled rejection, and a resolved
\* promise carries the results collection.
C7_FailureContained ==
    /\ promise # "rejected"
    /\ unhandled = {}
    /\ promise = "resolved" => resolvedWith = results

C7_Witness ==
    /\ promise = "resolved"
    /\ \E j \in Failed : pc[j] = "done"
    /\ Cardinality(Failed) >= 2

\* C8: jobs are started in submission order: the k-th job started is job k.
C8_FifoStart ==
    \A i \in 1..Len(startOrder) : startOrder[i] = i

\* Jobs started in order while completions were recorded out of order.
C8_Witness ==
    /\ Len(startOrder) = numTasks
    /\ numTasks > maxThreads
    /\ Len(results) >= 2
    /\ results[1] > results[2]

\* C9: when K >= N > 0 the runAll step itself starts all N jobs (queue empty,
\* running = N, every job pending), and afterwards no job is ever queued.
C9_NoQueuing ==
    /\ []((Called /\ numTasks > 0 /\ maxThreads >= numTasks) =>
            (queue = <<>> /\ \A j \in Submitted : pc[j] # "queued"))
    /\ [][(~Called /\ Called' /\ numTasks' > 0 /\ maxThreads >= numTasks') =>
            /\ queue' = <<>>
            /\ running' = numTasks'
            /\ \A j \in 1..numTasks' : pc'[j] = "pending"]_vars

C9_Witness ==
    /\ Called
    /\ numTasks >= 2
    /\ maxThreads >= numTasks
    /\ running = numTasks
    /\ \A j \in Submitted : pc[j] = "pending"

\* C10: after the initial dispatch a non-empty queue implies running = K,
\* and a finally handler that finds the queue non-empty starts exactly the
\* queue head in the same step, leaving the counter where it was.
C10_Saturated ==
    /\ []((Called /\ queue # <<>>) => running = maxThreads)
    /\ [][((\E j \in Jobs : pc[j] = "catchDone" /\ pc'[j] = "done") /\ queue # <<>>) =>
            /\ queue' = Tail(queue)
            /\ startOrder' = Append(startOrder, Head(queue))
            /\ invoked' = [invoked EXCEPT ![Head(queue)] = @ + 1]
            /\ pc'[Head(queue)] = "pending"
            /\ running' = running]_vars

\* A replacement was started after a failure while jobs were still queued.
C10_Witness ==
    /\ Len(startOrder) > maxThreads
    /\ queue # <<>>
    /\ running = maxThreads
    /\ \E j \in Failed : pc[j] = "done"

\* Jobs whose finally handler has run.
Terminated == {j \in Jobs : pc[j] = "done"}
Queued == {j \in Jobs : pc[j] = "queued"}

\* C11: in a single run, this.running equals the number of jobs started and
\* not yet through their finally handler, the queue holds exactly the jobs
\* not yet started, queue length + running + terminated jobs = N, and after
\* submission no step makes the queue longer.
C11_Bookkeeping ==
    /\ [](/\ running = Cardinality(Active)
          /\ Len(queue) = Cardinality(Queued)
          /\ \A i \in 1..Len(queue) : queue[i] \in Queued
          /\ Len(queue) + running + Cardinality(Terminated) = numTasks)
    /\ [][Called => Len(queue') <= Len(queue)]_vars

C11_Witness ==
    /\ queue # <<>>
    /\ \E j \in Failed : pc[j] = "done"
    /\ \E j \in Succeeded : j \in Active
    /\ running = Cardinality(Active)
    /\ running >= 1

\* C12: no handler of a job runs while this._onComplete is still undefined,
\* no finally handler throws, a state with nothing running has nothing
\* queued, and once every job of a call with N >= 1 is through its finally
\* handler the completion callback has been called and the promise resolved.
\* (A job whose promise is already settled when task() returns is the run
\* in which Settle is the first step after RunAll.)
C12_CallbackRegisteredInTime ==
    /\ \A j \in Jobs : pc[j] # "none" => onComplete # "undefined"
    /\ unhandled = {}
    /\ (Called /\ running = 0) => queue = <<>>
    /\ (numTasks >= 1 /\ \A j \in Submitted : pc[j] = "done") =>
           (signalled >= 1 /\ promise = "resolved")

\* A batch larger than K ran to completion with the callback in place.
C12_Witness ==
    /\ numTasks > maxThreads
    /\ \A j \in Submitted : pc[j] = "done"
    /\ promise = "resolved"
    /\ onComplete = "resolve1"
    /\ Len(results) = numTasks

\* C13: in a single run the completion callback is called at most once, and
\* no step at all is taken once it has been called.
C13_SignalledOnce ==
    /\ [](signalled <= 1)
    /\ [][signalled = 0]_vars

C13_Witness ==
    /\ signalled = 1
    /\ numTasks >= 2
    /\ Failed # {}
    /\ \A j \in Submitted : pc[j] = "done"

Submitted2 == (numTasks + 1)..(numTasks + numTasks2)
Called2 == promise2 # "none"

\* C14: when the second runAll is called while jobs of the first are in
\* flight, running never exceeds K, the first promise is never resolved,
\* the callback is called at most once and it is the second call's, the
\* second promise is resolved only with the queue empty and every job of
\* both calls through its finally handler, with this.results holding the
\* result of every successful job of both calls; and under the scheduling
\* of OverlapSpec it is eventually resolved.
C14_OverlappingCalls ==
    /\ [](overlap =>
            /\ running <= maxThreads
            /\ Cardinality(Active) <= maxThreads
            /\ promise = "pending"
            /\ onComplete = "resolve2"
            /\ signalled <= 1
            /\ signalled = 1 <=> promise2 = "resolved"
            /\ promise2 = "resolved" =>
                 /\ queue = <<>>
                 /\ running = 0
                 /\ \A j \in Submitted \cup Submitted2 : pc[j] = "done"
                 /\ resolvedWith2 = results
                 /\ {results[i] : i \in 1..Len(results)} =
                        Succeeded \cap (Submitted \cup Submitted2))
    /\ overlap ~> (promise2 = "resolved")

\* Both calls had jobs, jobs of both succeeded, the second promise resolved.
C14_Witness ==
    /\ overlap
    /\ promise2 = "resolved"
    /\ promise = "pending"
    /\ numTasks >= 1
    /\ numTasks2 >= 1
    /\ Succeeded \cap Submitted # {}
    /\ Succeeded \cap Submitted2 # {}
    /\ Failed # {}

(***************************************************************************)
(* Properties of the script.                                               *)
(***************************************************************************)

Yes == { <<"y">>, <<"Y">> }
Range(seq) == {seq[i] : i \in 1..Len(seq)}
NoDeletionJob ==
    /\ deleteTasks = 0
    /\ promise = "none"
    /\ \A j \in Jobs : invoked[j] = 0 /\ stage[j] = "none" /\ pc[j] = "none"

\* C15: deletion jobs exist or have been started only if the delete set is
\* non-empty and the line typed at the prompt is y or Y; after any other
\* line the script has closed the prompt (cancelled) and no deletion job
\* was created or started; a script that closed or exited without asking
\* has none either.
C15_DeleteOnlyWhenConfirmed ==
    /\ ~NoDeletionJob => (tagsToDelete # <<>> /\ answer \in Yes
                          /\ spc \in {"deleting", "reported"})
    /\ spc = "cancelled" <=>
           (spc \notin {"start", "synced", "prompt", "closed", "exited"}
            /\ answer \notin Yes)
    /\ spc \in {"cancelled", "closed", "exited"} => NoDeletionJob

\* The user typed "yes": cancelled, nothing deleted.
C15_Witness ==
    /\ spc = "cancelled"
    /\ answer = <<"y", "e", "s">>
    /\ Len(tagsToDelete) = 2
    /\ NoDeletionJob

\* The rule of the claim, written on the characters of the tag.
KeptByRule(tag) ==
    \/ tag[1] # "v"
    \/ /\ Len(tag) >= 3
       /\ tag[2] = "3"
       /\ tag[3] \in {"5", "6", "7", "8"}
       /\ \A i \in 4..Len(tag) : tag[i] \in Digits \cup {"."}

Classified == spc \in {"prompt", "cancelled", "deleting", "reported"}
                  \/ (spc = "closed" /\ allTags # <<>>)

\* C16: once the tags are classified, every tag of allTags is in exactly
\* one of tagsToKeep and tagsToDelete, the two lists hold nothing else, and
\* a tag is kept iff it does not start with v, or starts with v35..v38 and
\* has only digits and dots after its third character.
C16_ClassificationPartitions ==
    Classified =>
        /\ Len(tagsToKeep) + Len(tagsToDelete) = Len(allTags)
        /\ Range(tagsToKeep) \cup Range(tagsToDelete) = Range(allTags)
        /\ Range(tagsToKeep) \cap Range(tagsToDelete) = {}
        /\ \A t \in Range(allTags) : t \in Range(tagsToKeep) <=> KeptByRule(t)

C16_Witness ==
    /\ Classified
    /\ <<"v", "3", "5", ".", "0">> \in Range(tagsToKeep)
    /\ <<"v", "3", "6", ".", "1", "b">> \in Range(tagsToDelete)

NumListsWith(tag) ==
    (IF tag \in Range(successTags) THEN 1 ELSE 0)
    + (IF tag \in Range(failedTags) THEN 1 ELSE 0)
    + (IF tag \in Range(deletedLocalTags) THEN 1 ELSE 0)

\* C17: the promise of a deletion job is never rejected and nothing of it
\* reaches the pool's catch handler as a rejection; once the batch has
\* completed every tag of the delete set is in at most one of successTags,
\* failedTags and deletedLocalTags, and in none of them when the remote
\* delete reported "not found" and the local delete failed.
C17_DeletionJobsContained ==
    /\ \A j \in Jobs : outcome[j] # "rejected" /\ chain[j] # "rejected"
    /\ unhandled = {}
    /\ promise = "resolved" =>
         \A j \in 1..Len(tagsToDelete) :
            /\ NumListsWith(tagsToDelete[j]) <= 1
            /\ (remoteErr[j] = "notFound" /\ localRes[j] = "failed") =>
                   NumListsWith(tagsToDelete[j]) = 0

C17_Witness ==
    /\ spc = "reported"
    /\ \E j \in Jobs : remoteErr[j] = "notFound" /\ localRes[j] = "failed"
                       /\ NumListsWith(tagsToDelete[j]) = 0
    /\ \E j \in Jobs : remoteErr[j] = "other" /\ tagsToDelete[j] \in Range(failedTags)

====
